---- MODULE Spec2Model ----
(***************************************************************************)
(* Record-level migration pipeline of the migration scripts:               *)
(*   UserProfileReport.js   (user profile, and the attendance report that  *)
(*                           follows it in the same file)                  *)
(*   CohortSummaryReport.js (cohort summary)                               *)
(*   unnamed/part_000       (course: certificate copy + course table)      *)
(*   unnamed/part_001       (assessment tracking)                          *)
(* One run = connect, ensure schema, extract, per-record enrich/transform/ *)
(* write, catch, finally close.  The model runs a migration up to MaxRuns  *)
(* times against one destination so that re-runs can be compared.          *)
(* Specifications:                                                         *)
(*   Spec        one run of any of the five migrations                     *)
(*   SpecRerun   the same, started again after it exits                    *)
(*   SpecExtract extractIdFromValue applied to one attribute value         *)
(*   SpecUser    the user loop with processUser step by step, the four     *)
(*               location lookups of getLocationNames in flight together   *)
(***************************************************************************)
EXTENDS Integers, Sequences, FiniteSets, TLC

\* ---------------------------------------------------------------- bounds
MaxRows == 2
MaxRuns == 2
MaxStrLen == 3      \* longest attribute string drawn from Alphabet
MaxId == 12         \* largest identifier whose encodings are drawn
MaxUsers == 2       \* rows of the user extraction in the processUser detail

\* ---------------------------------------------------------------- values
Null == "null"              \* SQL NULL / JS null
Undefined == "undefined"    \* JS undefined
EmptyList == "[]"           \* JSON.stringify([])
EmptyJson == "{}"           \* JSON.stringify({})
NoResp == "none"            \* no lookup made yet for the current record

Migrations == {"user", "cohort", "attendance", "course", "assessment"}
ApiMigrations == {"course", "assessment"}
DbLookupMigrations == {"user", "cohort"}
CourseIds == {"c1", "c2"}
Ids == <<"k1", "k2", "k3", "k4">>

\* outcomes of one enrichment query through safeQuery / getLocationName
DbOutcomes == {"rows", "empty", "error"}
\* outcomes of one axios request
Responses == {"neterr", "non2xx", "noresult", "nopayload", "emptylist",
              "okNoId", "ok"}

VARIABLES
    mig,          \* which migrate* function this process runs
    src,          \* the source table (rows in extraction order)
    run,          \* number of the current run
    pc,           \* position in migrate*
    phase,        \* "main"; course migration: "cert" then "course"
    rows,         \* result.rows of the extraction query
    idx,          \* index in rows of the record being processed
    resp,         \* outcome of the current record's enrichment lookup
    apiData,      \* what the resolver returned for the current record
    srcConn,      \* sourceClient: [open, ends]
    dstConn,      \* destClient:   [open, ends]
    schema,       \* CREATE TABLE IF NOT EXISTS was executed in this run
    dest,         \* destination tables: [report, cert, course]
    completed,    \* the "completed successfully" line was logged in this run
    caught,       \* what the catch block of migrate* caught in this run
    attempted,    \* indices of rows whose processing has started
    errored,      \* indices of rows whose processing raised an error
    promise,      \* the promise migrate* returned: pending, resolved, rejected
    exitStatus,   \* -1 while running, else the exit status of a direct run
    log1,         \* lookup outcomes of the first run, in order
    lookups,      \* number of lookups made in this run
    sameLookups,  \* every lookup of the second run repeated the first run's
    dest1,        \* destination tables when the first run ended
    faults,       \* some database call failed in some run
    inserted,     \* every row written so far, with its table
    lastWrite,    \* the last completed destination write
    direct,       \* require.main === module: the script was run directly
    starter,      \* who called migrate*: "none", "module" or "host"
    issued,       \* statements issued in this run: [client, kind]
    requests,     \* HTTP requests sent for the record being processed
    \* extractIdFromValue on its own
    value,        \* the attribute value passed to extractIdFromValue
    extracted,    \* what extractIdFromValue returned
    \* processUser in detail
    users,        \* number of rows the user extraction returned
    uidx,         \* index of the user being processed
    upc,          \* position in the loop over users / in processUser
    finished,     \* indices of the users whose processUser call has ended
    fieldValues,  \* the FieldValues rows of the user being processed
    customFields, \* local of processUser
    locationIds,  \* local of processUser
    lookup,       \* getLocationNames: state of the lookup of each level
    result,       \* getLocationNames: its result object
    locationNames,\* local of processUser
    cohorts,      \* local of processUser
    tenant,       \* local of processUser: tenantName
    inFlight,     \* queries sent and not yet answered: [rec, level]
    userData,     \* the object handed to insertOrUpdateUserProfileReport
    written       \* the row the last insertOrUpdateUserProfileReport stored

extractVars == <<value, extracted>>
userVars == <<users, uidx, upc, finished, fieldValues, customFields, locationIds, lookup, result,
              locationNames, cohorts, tenant, inFlight, userData, written>>
detailVars == <<extractVars, userVars>>
modeVars == <<direct, starter>>

vars == <<mig, src, run, pc, phase, rows, idx, resp, apiData,
          srcConn, dstConn, schema, dest, completed, caught, attempted,
          errored, promise, exitStatus, log1, lookups, sameLookups, dest1,
          faults, inserted, lastWrite, modeVars, issued, requests,
          detailVars>>

\* ---------------------------------------------------------------- helpers
Range(s) == {s[i] : i \in DOMAIN s}

\* A table as a bag: row -> number of copies.
SeqToBag(s) == [r \in Range(s) |-> Cardinality({i \in DOMAIN s : s[i] = r})]

RowsWithKey(t, k) == {i \in DOMAIN t : t[i].key = k}

\* pg sends undefined as NULL.
PgParam(v) == IF v = Undefined THEN Null ELSE v

\* JS truthiness of a scalar read from a row or an API object.
Truthy(v) == v \notin {Null, Undefined, ""}

\* ---------------------------------------------------------- field extractor
\* JS values an attribute can hold.  A number is int + frac/10.
JsNull == [t |-> "null"]
NaN == [t |-> "nan"]
Num(i, f) == [t |-> "number", int |-> i, frac |-> f]
Str(cs) == [t |-> "string", chars |-> cs]
Arr(es) == [t |-> "array", elems |-> es]
\* extractIdFromValue has not returned yet.
Pending == [t |-> "pending"]

Digits == <<"0", "1", "2", "3", "4", "5", "6", "7", "8", "9">>
IsDigit(c) == c \in Range(Digits)
DigitValue(c) == (CHOOSE i \in DOMAIN Digits : Digits[i] = c) - 1
Whitespace == {" "}

\* !value
Falsy(v) ==
    \/ v.t \in {"null", "nan"}
    \/ v.t = "number" /\ v.int = 0 /\ v.frac = 0
    \/ v.t = "string" /\ v.chars = << >>

RECURSIVE TrimStart(_)
TrimStart(cs) ==
    IF cs # << >> /\ Head(cs) \in Whitespace THEN TrimStart(Tail(cs)) ELSE cs

RECURSIVE TrimEnd(_)
TrimEnd(cs) ==
    IF cs # << >> /\ cs[Len(cs)] \in Whitespace
    THEN TrimEnd(SubSeq(cs, 1, Len(cs) - 1)) ELSE cs

\* The longest prefix of cs made of decimal digits.
DigitPrefix(cs) ==
    LET ks == {k \in 0..Len(cs) : \A i \in 1..k : IsDigit(cs[i])}
        n == CHOOSE k \in ks : \A j \in ks : j <= k
    IN SubSeq(cs, 1, n)

RECURSIVE DecimalValue(_)
DecimalValue(ds) ==
    IF ds = << >> THEN 0
    ELSE 10 * DecimalValue(SubSeq(ds, 1, Len(ds) - 1)) + DigitValue(ds[Len(ds)])

\* String(n) of a non-negative integer.
RECURSIVE ToChars(_)
ToChars(n) ==
    IF n < 10 THEN <<Digits[n + 1]>>
    ELSE Append(ToChars(n \div 10), Digits[(n % 10) + 1])

\* parseInt(cs, 10): leading whitespace, an optional sign, then the digits up
\* to the first other character; NaN when there is no digit there.
parseInt(cs) ==
    LET t == TrimStart(cs)
        signed == t # << >> /\ t[1] \in {"-", "+"}
        negative == t # << >> /\ t[1] = "-"
        ds == DigitPrefix(IF signed THEN Tail(t) ELSE t)
    IN IF ds = << >> THEN NaN
       ELSE Num(IF negative THEN 0 - DecimalValue(ds) ELSE DecimalValue(ds), 0)

\* !isNaN(cs) of a string: Number(cs) is a number.  Blank is 0; otherwise an
\* optionally signed decimal literal (strings with an exponent, a radix
\* prefix or "Infinity" are not drawn).
IsNumericString(cs) ==
    LET t == TrimEnd(TrimStart(cs))
        signed == t # << >> /\ t[1] \in {"-", "+"}
        body == IF signed THEN Tail(t) ELSE t
        whole == DigitPrefix(body)
        rest == SubSeq(body, Len(whole) + 1, Len(body))
    IN \/ t = << >>
       \/ rest = << >> /\ whole # << >>
       \/ /\ rest # << >>
          /\ rest[1] = "."
          /\ \A i \in 2..Len(rest) : IsDigit(rest[i])
          /\ whole # << >> \/ Len(rest) > 1

\* value.match(/\d/): the first digit alone.
FirstDigitOnly(cs) ==
    LET is == {i \in DOMAIN cs : IsDigit(cs[i])}
    IN IF is = {} THEN << >>
       ELSE <<cs[CHOOSE a \in is : \A b \in is : a <= b]>>

\* value.match(/\d+/): the first run of digits, << >> when there is none.
FirstDigitRun(cs) ==
    LET is == {i \in DOMAIN cs : IsDigit(cs[i])}
    IN IF is = {} THEN << >>
       ELSE DigitPrefix(SubSeq(cs, CHOOSE a \in is : \A b \in is : a <= b,
                               Len(cs)))

extractIdFromValue(v) ==
    IF Falsy(v) THEN JsNull
    ELSE IF v.t = "number" THEN v
    ELSE IF /\ v.t = "array"
            /\ Len(v.elems) > 0
            /\ v.elems[1].t \in {"number", "nan"}
         THEN v.elems[1]
    ELSE IF /\ v.t = "array"
            /\ Len(v.elems) > 0
            /\ v.elems[1].t = "string"
            /\ IsNumericString(v.elems[1].chars)
         THEN parseInt(v.elems[1].chars)
    ELSE IF v.t = "string" /\ FirstDigitRun(v.chars) # << >>
         THEN parseInt(FirstDigitRun(v.chars))
    ELSE IF v.t = "string" /\ IsNumericString(v.chars)
         THEN parseInt(v.chars)
    ELSE JsNull

\* The attribute values extractIdFromValue is applied to.
Alphabet == {"0", "1", "2", "-", ".", "{", "}", "a", " "}
Strings == UNION {[1..n -> Alphabet] : n \in 0..MaxStrLen}
Numbers == {Num(i, f) : i \in (0 - 2)..MaxId, f \in {0, 5}} \cup {NaN}
\* The encodings of identifier n: n, [n], ["n"], "{n}", "n".
Forms(n) == {Num(n, 0), Arr(<<Num(n, 0)>>), Arr(<<Str(ToChars(n))>>),
             Str(<<"{">> \o ToChars(n) \o <<"}">>), Str(ToChars(n))}
AttributeValues ==
    {JsNull} \cup Numbers \cup {Str(cs) : cs \in Strings}
    \cup {Arr(<< >>)} \cup {Arr(<<e>>) : e \in Numbers \cup {Str(cs) : cs \in Strings}}
    \cup UNION {Forms(n) : n \in 1..MaxId}
    \cup Forms(42) \cup {Str(<<"a", "b", "c">>)}

\* ------------------------------------------------------- enrichment resolver
\* A JS value returned by a remote resolver.  An object with no property
\* ({}) reads undefined for every field.
EmptyObj == [kind |-> "object", identifier |-> Undefined, name |-> Undefined,
             language |-> Undefined]
UndefinedValue == [kind |-> "undefined", identifier |-> Undefined,
                   name |-> Undefined, language |-> Undefined]
\* The payload the remote API holds for a course id (its name stands for
\* every field that describes that course).
Content(courseId) == [kind |-> "object", identifier |-> courseId,
                      name |-> courseId, language |-> "lang"]
\* The same payload without its identifier property.
ContentNoId(courseId) == [Content(courseId) EXCEPT !.identifier = Undefined]

\* The responses each remote API can give: the hierarchy API answers with one
\* content object, the search API with a QuestionSet list.
ResponsesOf(m) == IF m = "course" THEN Responses \ {"emptylist"}
                  ELSE Responses \ {"okNoId"}

\* fetchCourseData: GET .../hierarchy/{id}; axios rejects on a network error
\* and on a non-2xx status.
fetchCourseData(courseId, r) ==
    IF ~Truthy(courseId) THEN EmptyObj
    ELSE IF r \in {"neterr", "non2xx"} THEN EmptyObj      \* catch, then return {}
    ELSE IF r = "ok" THEN Content(courseId)               \* result.content
    ELSE IF r = "okNoId" THEN ContentNoId(courseId)
    ELSE EmptyObj                                         \* falls through

\* fetchApiData: POST .../search; returns response.data.result.QuestionSet[0].
fetchApiData(courseId, r) ==
    IF ~Truthy(courseId) THEN EmptyObj
    ELSE IF r \in {"neterr", "non2xx"} THEN EmptyObj      \* catch, then return {}
    ELSE IF r \in {"noresult", "nopayload"} THEN EmptyObj \* TypeError, caught
    ELSE IF r = "emptylist" THEN UndefinedValue           \* [][0]
    ELSE Content(courseId)

\* A safeQuery whose catch block returns the error instead of defaultValue.
safeQueryReturnsError(outcome, found, defaultValue) ==
    IF outcome = "error" THEN <<"error">>
    ELSE IF outcome = "rows" THEN found
    ELSE << >>

\* safeQuery: result.rows, or defaultValue when the query throws.
safeQuery(outcome, found, defaultValue) ==
    IF outcome = "error" THEN defaultValue
    ELSE IF outcome = "rows" THEN found
    ELSE << >>

\* The rows the enrichment tables hold for a record that has some.
FoundRows == <<"r">>

getCustomFields(outcome) ==
    IF safeQuery(outcome, FoundRows, << >>) = << >> THEN EmptyJson ELSE "cf"

getUserCohorts(outcome) ==
    IF safeQuery(outcome, FoundRows, << >>) = << >> THEN EmptyList ELSE "co"

getUserTenantAndRole(outcome) ==
    IF safeQuery(outcome, FoundRows, << >>) = << >> THEN Null ELSE "tn"

\* getUserLocationIds / getCohortLocationIds followed by getLocationNames.
getLocationNames(outcome) ==
    IF safeQuery(outcome, FoundRows, << >>) = << >> THEN Null ELSE "st"

\* ------------------------------------------------------- entity transformer
\* The record processUser hands to insertOrUpdateUserProfileReport.
UserRecord(row, outcome) ==
    [key |-> row.id, val |-> row.val, created |-> row.created,
     customFields |-> getCustomFields(outcome),
     cohorts |-> getUserCohorts(outcome),
     tenantName |-> getUserTenantAndRole(outcome),
     state |-> getLocationNames(outcome),
     name |-> Null]

\* The parameters processCohort passes to its upsert.
CohortRecord(row, outcome) ==
    [key |-> row.id, val |-> row.val, created |-> row.created,
     customFields |-> getCustomFields(outcome),
     cohorts |-> Null, tenantName |-> Null,
     state |-> getLocationNames(outcome),
     name |-> Null]

\* The parameters processAttendance passes to its upsert.
AttendanceRecord(row) ==
    [key |-> row.id, val |-> row.val, created |-> row.created,
     customFields |-> Null, cohorts |-> Null, tenantName |-> Null,
     state |-> Null, name |-> Null]

\* The values migrateAssessmentTrackingTable passes: apiData?.name || null.
AssessmentRecord(row, data) ==
    [key |-> row.id, val |-> row.val, created |-> row.created,
     customFields |-> Null, cohorts |-> Null, tenantName |-> Null,
     state |-> Null,
     name |-> IF data.kind = "undefined" THEN Null
              ELSE IF Truthy(data.name) THEN data.name ELSE Null]

\* mapContentToCourseEntity.
mapContentToCourseEntity(content) ==
    [courseDoId |-> content.identifier,
     courseName |-> content.name,
     language |-> IF Truthy(content.language) THEN content.language
                  ELSE EmptyList,
     details |-> content]

\* The values migrateCourseTable inserts for one DISTINCT courseId.
CourseRecord(data) ==
    LET t == mapContentToCourseEntity(data) IN
    [key |-> PgParam(t.courseDoId),
     name |-> PgParam(t.courseName),
     language |-> t.language,
     details |-> IF t.details = EmptyObj THEN EmptyJson ELSE "json"]

\* The values migrateUserCourseDataTable inserts: the source row as it is.
CertRecord(row) ==
    [key |-> row.id, courseId |-> row.courseId, val |-> row.val,
     created |-> row.created]

\* ------------------------------------------------------- idempotent writer
\* An upsert whose DO UPDATE SET lists every column.
UpsertRowOverwritesAll(t, rec) ==
    IF RowsWithKey(t, rec.key) = {} THEN Append(t, rec)
    ELSE [i \in DOMAIN t |-> IF t[i].key = rec.key THEN rec ELSE t[i]]

\* An upsert whose DO UPDATE SET keeps a stored enrichment column when the
\* new value is the default: "col" = COALESCE(NULLIF(new, default), old).
UpsertRowKeepsOnDefault(t, rec) ==
    IF RowsWithKey(t, rec.key) = {} THEN Append(t, rec)
    ELSE [i \in DOMAIN t |->
            IF t[i].key = rec.key
            THEN [f \in DOMAIN rec |->
                    IF f = "created" THEN t[i].created
                    ELSE IF /\ f \in {"customFields", "cohorts", "tenantName",
                                      "state"}
                            /\ rec[f] \in {Null, EmptyList, EmptyJson}
                         THEN t[i][f]
                    ELSE rec[f]]
            ELSE t[i]]

\* INSERT ... ON CONFLICT (key) DO UPDATE SET <every column but the key and
\* the creation columns>.
UpsertRow(t, rec) ==
    IF RowsWithKey(t, rec.key) = {} THEN Append(t, rec)
    ELSE [i \in DOMAIN t |->
            IF t[i].key = rec.key THEN [rec EXCEPT !.created = t[i].created]
            ELSE t[i]]

\* A DELETE whose WHERE clause is missing.
DeleteEveryRow(t, k) == << >>

\* DELETE FROM t WHERE key = $1 ; "= NULL" matches no row.
DeleteByKey(t, k) ==
    IF k = Null THEN t ELSE SelectSeq(t, LAMBDA r : r.key # k)

\* Plain INSERT into a table without a uniqueness constraint.
InsertRow(t, rec) == Append(t, rec)

\* SELECT DISTINCT "courseId": one row per value, NULL included.
RECURSIVE DistinctCourseIds(_)
DistinctCourseIds(s) ==
    IF s = << >> THEN << >>
    ELSE LET front == DistinctCourseIds(SubSeq(s, 1, Len(s) - 1))
             last == s[Len(s)].courseId
         IN IF \E i \in DOMAIN front : front[i].courseId = last THEN front
            ELSE Append(front, [id |-> Null, courseId |-> last,
                                val |-> Null, created |-> Null])

\* ------------------------------------------------------- database clients
\* One statement sent on a client.
Statement(client, kind) == [client |-> client, kind |-> kind]

\* The client the extraction query and the enrichment queries are sent on.
ReaderClient(m) == "source"
\* The client create...ReportTable is given.
SchemaClient(m) == "dest"
\* A writer that is handed the source client.
WriterClientIsSource(m) == "source"
\* The client the DELETE / INSERT / upsert statements are sent on.
WriterClient(m) == "dest"

\* ------------------------------------------------------- processUser: values
Levels == {"state", "district", "block", "village"}
\* The result object getLocationNames starts from.
NullNames == [stateName |-> Null, districtName |-> Null, blockName |-> Null,
              villageName |-> Null]
\* The locations object getUserLocationIds starts from.
NullIds == [l \in Levels |-> JsNull]
IdleLookups == [l \in Levels |-> [st |-> "idle", name |-> Null]]
\* The names of the fields a user can have FieldValues rows for: the four
\* location fields and one other custom field.
FieldNames == Levels \cup {"other"}
\* What the attribute store holds for a location field: each level in
\* another of the encodings in use.
LevelValue ==
    [state |-> Str(<<"1">>), district |-> Str(<<"{", "2", "}">>),
     block |-> Arr(<<Str(<<"3">>)>>), village |-> Num(4, 0)]
\* The row of each location table: its id and its name.
LocationRow ==
    [state |-> [id |-> Num(1, 0), name |-> "s1"],
     district |-> [id |-> Num(2, 0), name |-> "d2"],
     block |-> [id |-> Num(3, 0), name |-> "b3"],
     village |-> [id |-> Num(4, 0), name |-> "v4"]]
\* The cohort types of the rows getUserCohorts can return.
CohortLists == {<< >>, <<"manual">>, <<"automatic">>, <<"manual", "automatic">>}

\* locationMappings whose entries all name the same result key.
ResultKeyShared(l) == "stateName"

\* locationMappings: resultKey of each level.
ResultKey(l) ==
    [state |-> "stateName", district |-> "districtName",
     block |-> "blockName", village |-> "villageName"][l]

\* getLocationName after its id checks: the query on the level's table.
getLocationName(l, idValue, outcome) ==
    IF outcome = "error" THEN Null
    ELSE IF outcome = "rows" /\ idValue = LocationRow[l].id
         THEN LocationRow[l].name
    ELSE Null

\* Promise.race in place of Promise.all: the first settled mapper is enough.
PromiseRace(lk) == \E l \in Levels : lk[l].st = "done"

\* await Promise.all(locationPromises): every mapper has finished.
PromiseAll(lk) == \A l \in Levels : lk[l].st = "done"

\* cohorts.every(...) without the guard for an empty list.
determineAutomaticMembershipEvery(cs) ==
    \A i \in DOMAIN cs : cs[i] = "automatic"

determineAutomaticMembership(cs) ==
    IF Len(cs) = 0 THEN FALSE
    ELSE \E i \in DOMAIN cs : cs[i] = "automatic"

\* JSON.stringify(x) stored in a jsonb column.
Jsonb(x) == [jsonb |-> x]
\* pg sends the number as text; a boolean column reads '1' as true and '0'
\* as false.
PgBoolean(n) == n = 1

\* The row insertOrUpdateUserProfileReport stores for userData.
UserRow(d) ==
    [userId |-> d.userId,
     tenantName |-> d.tenantName,
     customFields |-> Jsonb(d.customFields),
     cohorts |-> Jsonb(d.cohorts),
     automaticMember |-> PgBoolean(d.automaticMember),
     state |-> d.state, district |-> d.district,
     block |-> d.block, village |-> d.village]

\* ------------------------------------------------------------ batch runner
HasSchemaStep(m) == m \in {"user", "cohort", "attendance"}
\* Every loop wraps each record in its own try/catch and goes on.
HasRecordCatchEverywhere(m) == TRUE

\* processCohort and processAttendance wrap the whole record in try/catch;
\* processUser and the course and assessment loops do not.
HasRecordCatch(m) == m \in {"cohort", "attendance"}

FirstPhase(m) == IF m = "course" THEN "cert" ELSE "main"

\* First step of a record's processing.
RecordEntry(m, ph) ==
    IF m \in DbLookupMigrations THEN "enrich"
    ELSE IF m = "attendance" THEN "write"
    ELSE IF m = "assessment" THEN "fetch"
    ELSE IF ph = "cert" THEN "delete"
    ELSE "fetch"

\* Where the for-of loop goes with index i over row set rs.
LoopPc(m, ph, rs, i) ==
    IF i <= Len(rs) THEN RecordEntry(m, ph)
    ELSE IF m = "course" /\ ph = "cert" THEN "extract"
    ELSE "logCompleted"

LoopPhase(m, ph, rs, i) ==
    IF i > Len(rs) /\ m = "course" /\ ph = "cert" THEN "course" ELSE ph

NoWrite == << >>

\* The destination table the current phase writes.
Table(m, ph) == IF m # "course" THEN "report"
                ELSE IF ph = "cert" THEN "cert" ELSE "course"

\* The record handed to the writer for the current row.
Record(m, ph, row, outcome, data) ==
    IF m = "user" THEN UserRecord(row, outcome)
    ELSE IF m = "cohort" THEN CohortRecord(row, outcome)
    ELSE IF m = "attendance" THEN AttendanceRecord(row)
    ELSE IF m = "assessment" THEN AssessmentRecord(row, data)
    ELSE IF ph = "cert" THEN CertRecord(row)
    ELSE CourseRecord(data)

InitSrc(m) ==
    {s \in UNION {[1..n -> [id : Range(Ids), courseId : CourseIds \cup {Null},
                            val : {"v1"}, created : {"t1"}]] : n \in 0..MaxRows} :
        \A i \in DOMAIN s :
            /\ s[i].id = Ids[i]
            /\ (m \notin ApiMigrations => s[i].courseId = Null)}

\* The destination database before the first run: empty, or holding what an
\* earlier migration of an older source (row OldRow, enrichment found) wrote.
EmptyDest == [report |-> << >>, cert |-> << >>, course |-> << >>]

OldRow == [id |-> Ids[1], courseId |-> "c1", val |-> "v0", created |-> "t0"]

InitDest(m) ==
    {EmptyDest,
     IF m = "course"
     THEN [report |-> << >>,
           cert |-> <<Record(m, "cert", OldRow, "rows", Content("c1"))>>,
           course |-> <<Record(m, "course", OldRow, "rows", Content("c1"))>>]
     ELSE [report |-> <<Record(m, "main", OldRow, "rows", Content("c1"))>>,
           cert |-> << >>, course |-> << >>]}

\* The rows a destination holds, each with its table.
Preloaded(d) ==
    UNION {{[table |-> t, rec |-> d[t][i]] : i \in DOMAIN d[t]} :
           t \in {"report", "cert", "course"}}

\* extractIdFromValue is not being applied.
ExtractIdle == value = JsNull /\ extracted = Pending

\* No user is being processed in detail.
UserIdle ==
    /\ users = 0
    /\ uidx = 0
    /\ upc = "off"
    /\ finished = {}
    /\ fieldValues = {}
    /\ customFields = {}
    /\ locationIds = NullIds
    /\ lookup = IdleLookups
    /\ result = NullNames
    /\ locationNames = NullNames
    /\ cohorts = << >>
    /\ tenant = Null
    /\ inFlight = {}
    /\ userData = << >>
    /\ written = << >>

\* A module whose migrate* call is not guarded: it runs on every load.
RunsOnEveryLoad(isMain) == TRUE

\* if (require.main === module) { migrate*().catch(... process.exit(1)) }
RunsOnLoad(isMain) == isMain

Init ==
    /\ mig \in Migrations
    /\ src \in InitSrc(mig)
    /\ run = 1
    /\ direct \in BOOLEAN
    /\ starter = IF RunsOnLoad(direct) THEN "module" ELSE "none"
    /\ pc = IF RunsOnLoad(direct) THEN "connectSrc" ELSE "loaded"
    /\ issued = {}
    /\ requests = 0
    /\ ExtractIdle
    /\ UserIdle
    /\ phase = FirstPhase(mig)
    /\ rows = << >>
    /\ idx = 0
    /\ resp = NoResp
    /\ apiData = EmptyObj
    /\ srcConn = [open |-> FALSE, ends |-> 0]
    /\ dstConn = [open |-> FALSE, ends |-> 0]
    /\ schema = FALSE
    /\ dest \in InitDest(mig)
    /\ completed = FALSE
    /\ caught = "none"
    /\ attempted = {}
    /\ errored = {}
    /\ promise = "pending"
    /\ exitStatus = -1
    /\ log1 = << >>
    /\ lookups = 0
    /\ sameLookups = TRUE
    /\ dest1 = EmptyDest
    /\ faults = FALSE
    /\ inserted = Preloaded(dest)
    /\ lastWrite = NoWrite

\* The module was imported; its host calls the exported migrate*.
HostCall ==
    /\ pc = "loaded"
    /\ starter' = "host"
    /\ pc' = "connectSrc"
    /\ UNCHANGED <<mig, src, run, phase, rows, idx, resp, apiData,
                   srcConn, dstConn, schema, dest, completed, caught,
                   attempted, errored, promise, exitStatus, log1, lookups,
                   sameLookups, dest1, faults, inserted, lastWrite, direct,
                   issued, detailVars>>
    /\ UNCHANGED requests

\* await sourceClient.connect()
ConnectSource ==
    /\ pc = "connectSrc"
    /\ \E ok \in BOOLEAN :
        IF ok
        THEN /\ srcConn' = [srcConn EXCEPT !.open = TRUE]
             /\ pc' = "connectDst"
             /\ UNCHANGED <<caught, faults>>
        ELSE /\ pc' = "catch"
             /\ caught' = "connect"
             /\ faults' = TRUE
             /\ UNCHANGED srcConn
    /\ UNCHANGED <<mig, src, run, phase, rows, idx, resp, apiData,
                   dstConn, schema, dest, completed, attempted, errored,
                   promise, exitStatus, log1,
                   lookups, sameLookups, dest1, inserted, lastWrite>>
    /\ UNCHANGED <<modeVars, issued, detailVars>>
    /\ UNCHANGED requests

\* await destClient.connect()
ConnectDest ==
    /\ pc = "connectDst"
    /\ \E ok \in BOOLEAN :
        IF ok
        THEN /\ dstConn' = [dstConn EXCEPT !.open = TRUE]
             /\ pc' = IF HasSchemaStep(mig) THEN "schema" ELSE "extract"
             /\ UNCHANGED <<caught, faults>>
        ELSE /\ pc' = "catch"
             /\ caught' = "connect"
             /\ faults' = TRUE
             /\ UNCHANGED dstConn
    /\ UNCHANGED <<mig, src, run, phase, rows, idx, resp, apiData,
                   srcConn, schema, dest, completed, attempted, errored,
                   promise, exitStatus, log1,
                   lookups, sameLookups, dest1, inserted, lastWrite>>
    /\ UNCHANGED <<modeVars, issued, detailVars>>
    /\ UNCHANGED requests

\* await create...ReportTable(destClient)
EnsureSchema ==
    /\ pc = "schema"
    /\ \E ok \in BOOLEAN :
        IF ok
        THEN /\ schema' = TRUE
             /\ pc' = "extract"
             /\ UNCHANGED <<caught, faults>>
        ELSE /\ pc' = "catch"
             /\ caught' = "schema"
             /\ faults' = TRUE
             /\ UNCHANGED schema
    /\ UNCHANGED <<mig, src, run, phase, rows, idx, resp, apiData,
                   srcConn, dstConn, dest, completed, attempted, errored,
                   promise, exitStatus, log1,
                   lookups, sameLookups, dest1, inserted, lastWrite>>
    /\ issued' = issued \cup {Statement(SchemaClient(mig), "ddl")}
    /\ UNCHANGED <<modeVars, detailVars>>
    /\ UNCHANGED requests

\* The row set of the bulk extraction query of the current phase.
Extracted(m, ph, s) == IF m = "course" /\ ph = "course" THEN DistinctCourseIds(s)
                       ELSE s

\* await sourceClient.query(<extraction query>), then the loop head.
Extract ==
    /\ pc = "extract"
    /\ \E ok \in BOOLEAN :
        IF ok
        THEN LET rs == Extracted(mig, phase, src) IN
             /\ rows' = rs
             /\ idx' = 1
             /\ attempted' = IF rs = << >> THEN {} ELSE {1}
             /\ errored' = {}
             /\ pc' = LoopPc(mig, phase, rs, 1)
             /\ phase' = LoopPhase(mig, phase, rs, 1)
             /\ requests' = 0
             /\ UNCHANGED <<caught, faults>>
        ELSE /\ pc' = "catch"
             /\ caught' = "extract"
             /\ faults' = TRUE
             /\ UNCHANGED <<rows, idx, attempted, errored, phase, requests>>
    /\ UNCHANGED <<mig, src, run, resp, apiData, srcConn, dstConn,
                   schema, dest, completed, promise, exitStatus, log1,
                   lookups, sameLookups, dest1, inserted, lastWrite>>
    /\ issued' = issued \cup {Statement(ReaderClient(mig), "select")}
    /\ UNCHANGED <<modeVars, detailVars>>

\* The loop moves on to the next row (or leaves the loop).
Advance ==
    /\ idx' = idx + 1
    /\ attempted' = IF idx + 1 <= Len(rows) THEN attempted \cup {idx + 1}
                    ELSE attempted
    /\ pc' = LoopPc(mig, phase, rows, idx + 1)
    /\ phase' = LoopPhase(mig, phase, rows, idx + 1)
    /\ resp' = NoResp
    /\ apiData' = EmptyObj
    /\ requests' = 0

\* Bookkeeping of one enrichment lookup with outcome r.
LogLookup(r) ==
    /\ lookups' = lookups + 1
    /\ log1' = IF run = 1 THEN Append(log1, r) ELSE log1
    /\ sameLookups' = IF run = 2
                      THEN /\ sameLookups
                           /\ lookups + 1 <= Len(log1)
                           /\ log1[lookups + 1] = r
                      ELSE sameLookups

\* processUser / processCohort: the safeQuery lookups of one record.  They
\* all go to the source connection; one outcome stands for the record's
\* lookups.  No outcome throws.
EnrichFromDb ==
    /\ pc = "enrich"
    /\ \E r \in DbOutcomes :
        /\ resp' = r
        /\ LogLookup(r)
    /\ pc' = "write"
    /\ UNCHANGED <<mig, src, run, phase, rows, idx, apiData,
                   srcConn, dstConn, schema, dest, completed, caught,
                   attempted, errored, promise, exitStatus, dest1, faults,
                   inserted, lastWrite>>
    /\ issued' = issued \cup {Statement(ReaderClient(mig), "select")}
    /\ UNCHANGED <<modeVars, detailVars>>
    /\ UNCHANGED requests

\* A resolver that sends its request again after a failed one.
RequestsSentWithRetry(courseId, r) ==
    IF ~Truthy(courseId) THEN 0
    ELSE IF r \in {"neterr", "non2xx"} THEN 2
    ELSE 1

\* The axios calls one fetchCourseData / fetchApiData call makes: none when
\* `if (!courseId) return {}` returns, else the one axios.get / axios.post.
RequestsSent(courseId, r) == IF ~Truthy(courseId) THEN 0 ELSE 1

\* const apiData = await fetchCourseData(courseId) / fetchApiData(courseId)
FetchRemote ==
    /\ pc = "fetch"
    /\ LET courseId == rows[idx].courseId IN
       \E r \in IF Truthy(courseId) THEN ResponsesOf(mig) ELSE {"norequest"} :
        /\ resp' = r
        /\ apiData' = IF mig = "course" THEN fetchCourseData(courseId, r)
                      ELSE fetchApiData(courseId, r)
        /\ requests' = requests + RequestsSent(courseId, r)
        /\ LogLookup(r)
    /\ pc' = IF mig = "course" THEN "delete" ELSE "write"
    /\ UNCHANGED <<mig, src, run, phase, rows, idx, srcConn,
                   dstConn, schema, dest, completed, caught, attempted,
                   errored, promise, exitStatus, dest1, faults, inserted, lastWrite>>
    /\ UNCHANGED <<modeVars, issued, detailVars>>

\* An error thrown while processing the current record, where no try/catch
\* surrounds the record: it leaves the loop for the catch block of migrate*.
RecordThrows ==
    /\ errored' = errored \cup {idx}
    /\ faults' = TRUE
    /\ pc' = "catch"
    /\ caught' = "record"
    /\ UNCHANGED <<idx, attempted, phase, resp, apiData>>

\* await destClient.query('DELETE FROM ... WHERE <key> = $1', [key])
DeleteExisting ==
    /\ pc = "delete"
    /\ LET t == Table(mig, phase)
           key == Record(mig, phase, rows[idx], resp, apiData).key
       IN \E ok \in BOOLEAN :
           IF ok
           THEN /\ dest' = [dest EXCEPT ![t] = DeleteByKey(dest[t], key)]
                /\ pc' = "write"
                /\ UNCHANGED <<errored, faults, caught, idx, attempted, phase,
                               resp, apiData>>
           ELSE /\ RecordThrows
                /\ UNCHANGED dest
    /\ UNCHANGED <<mig, src, run, rows, srcConn, dstConn, schema,
                   completed, promise, exitStatus, log1, lookups, sameLookups,
                   dest1, inserted, lastWrite>>
    /\ issued' = issued \cup {Statement(WriterClient(mig), "delete")}
    /\ UNCHANGED <<modeVars, detailVars>>
    /\ UNCHANGED requests

\* The write statement of the current phase: an upsert into the report
\* tables, a plain INSERT into the certificate and course tables.
Written(m, t, rec) == IF m = "course" THEN InsertRow(t, rec) ELSE UpsertRow(t, rec)

\* await destClient.query(<insert / upsert>, values), then the next row.
WriteRecord ==
    /\ pc = "write"
    /\ LET t == Table(mig, phase)
           rec == Record(mig, phase, rows[idx], resp, apiData)
       IN \E ok \in BOOLEAN :
           IF ok
           THEN /\ dest' = [dest EXCEPT ![t] = Written(mig, dest[t], rec)]
                /\ lastWrite' = <<[table |-> t, idx |-> idx, resp |-> resp,
                                   row |-> rows[idx], rec |-> rec,
                                   before |-> SelectSeq(dest[t],
                                               LAMBDA r : r.key = rec.key),
                                   earlier |-> {w.rec : w \in
                                       {x \in inserted : /\ x.table = t
                                                         /\ x.rec.key = rec.key}}]>>
                /\ inserted' = inserted \cup {[table |-> t, rec |-> rec]}
                /\ Advance
                /\ UNCHANGED <<errored, faults, caught>>
           ELSE /\ UNCHANGED <<dest, inserted, lastWrite>>
                /\ IF HasRecordCatch(mig)
                   THEN /\ errored' = errored \cup {idx}
                        /\ faults' = TRUE
                        /\ Advance
                        /\ UNCHANGED caught
                   ELSE RecordThrows /\ UNCHANGED requests
    /\ UNCHANGED <<mig, src, run, rows, srcConn, dstConn, schema,
                   completed, promise, exitStatus, log1, lookups, sameLookups,
                   dest1>>
    /\ issued' = issued \cup {Statement(WriterClient(mig), "insert")}
    /\ UNCHANGED <<modeVars, detailVars>>

\* console.log('... completed successfully'): the end of the try block.
LogCompleted ==
    /\ pc = "logCompleted"
    /\ completed' = TRUE
    /\ pc' = "closeSrc"
    /\ UNCHANGED <<mig, src, run, phase, rows, idx, resp, apiData,
                   srcConn, dstConn, schema, dest, caught, attempted, errored,
                   promise, exitStatus, log1, lookups, sameLookups, dest1,
                   faults, inserted, lastWrite>>
    /\ UNCHANGED <<modeVars, issued, detailVars>>
    /\ UNCHANGED requests

\* catch (error) { console.error(...) }: the error is logged, not re-thrown.
CatchError ==
    /\ pc = "catch"
    /\ pc' = "closeSrc"
    /\ UNCHANGED <<mig, src, run, phase, rows, idx, resp, apiData,
                   srcConn, dstConn, schema, dest, completed, caught,
                   attempted, errored, promise, exitStatus, log1, lookups,
                   sameLookups, dest1, faults, inserted, lastWrite>>
    /\ UNCHANGED <<modeVars, issued, detailVars>>
    /\ UNCHANGED requests

\* finally: await sourceClient.end(); a rejection leaves the finally block.
\* end() of a client that never connected has nothing to close.
CloseSource ==
    /\ pc = "closeSrc"
    /\ srcConn' = [open |-> FALSE, ends |-> srcConn.ends + 1]
    /\ \E ok \in IF srcConn.open THEN BOOLEAN ELSE {TRUE} :
        IF ok
        THEN /\ pc' = "closeDst"
             /\ UNCHANGED <<promise, faults>>
        ELSE /\ pc' = "settled"
             /\ promise' = "rejected"
             /\ faults' = TRUE
    /\ UNCHANGED <<mig, src, run, phase, rows, idx, resp, apiData,
                   dstConn, schema, dest, completed, caught, attempted,
                   errored, exitStatus, log1, lookups, sameLookups, dest1,
                   inserted, lastWrite>>
    /\ UNCHANGED <<modeVars, issued, detailVars>>
    /\ UNCHANGED requests

\* finally: await destClient.end(); then migrate* returns.
CloseDest ==
    /\ pc = "closeDst"
    /\ dstConn' = [open |-> FALSE, ends |-> dstConn.ends + 1]
    /\ pc' = "settled"
    /\ \E ok \in IF dstConn.open THEN BOOLEAN ELSE {TRUE} :
        IF ok
        THEN /\ promise' = "resolved"
             /\ UNCHANGED faults
        ELSE /\ promise' = "rejected"
             /\ faults' = TRUE
    /\ UNCHANGED <<mig, src, run, phase, rows, idx, resp, apiData,
                   srcConn, schema, dest, completed, caught, attempted,
                   errored, exitStatus, log1, lookups, sameLookups, dest1,
                   inserted, lastWrite>>
    /\ UNCHANGED <<modeVars, issued, detailVars>>
    /\ UNCHANGED requests

\* migrate*().catch(err => process.exit(1)) of the guarded block; a run the
\* host started has no such handler.
Exit ==
    /\ pc = "settled"
    /\ starter = "module"
    /\ exitStatus' = IF promise = "rejected" THEN 1 ELSE 0
    /\ dest1' = IF run = 1 THEN dest ELSE dest1
    /\ pc' = "exited"
    /\ UNCHANGED <<mig, src, run, phase, rows, idx, resp, apiData,
                   srcConn, dstConn, schema, dest, completed, caught,
                   attempted, errored, promise, log1, lookups, sameLookups,
                   faults, inserted, lastWrite>>
    /\ UNCHANGED <<modeVars, issued, detailVars>>
    /\ UNCHANGED requests

\* The script is started again: new clients, same destination database.
NextRun ==
    /\ pc = "exited"
    /\ run < MaxRuns
    /\ run' = run + 1
    /\ pc' = "connectSrc"
    /\ phase' = FirstPhase(mig)
    /\ rows' = << >>
    /\ idx' = 0
    /\ resp' = NoResp
    /\ apiData' = EmptyObj
    /\ srcConn' = [open |-> FALSE, ends |-> 0]
    /\ dstConn' = [open |-> FALSE, ends |-> 0]
    /\ schema' = FALSE
    /\ completed' = FALSE
    /\ caught' = "none"
    /\ attempted' = {}
    /\ errored' = {}
    /\ promise' = "pending"
    /\ exitStatus' = -1
    /\ lookups' = 0
    /\ lastWrite' = NoWrite
    /\ UNCHANGED <<mig, src, dest, log1, sameLookups, dest1, faults, inserted>>
    /\ issued' = {}
    /\ UNCHANGED <<modeVars, detailVars>>
    /\ requests' = 0

Next ==
    \/ HostCall
    \/ ConnectSource
    \/ ConnectDest
    \/ EnsureSchema
    \/ Extract
    \/ EnrichFromDb
    \/ FetchRemote
    \/ DeleteExisting
    \/ WriteRecord
    \/ LogCompleted
    \/ CatchError
    \/ CloseSource
    \/ CloseDest
    \/ Exit

Spec == Init /\ [][Next]_vars

\* The same, with the script started again after it exits.
NextRerun == Next \/ NextRun

SpecRerun == Init /\ [][NextRerun]_vars

\* ------------------------------------------------ extractIdFromValue alone
\* No migration runs.
MainOff ==
    /\ mig = "user"
    /\ src = << >>
    /\ run = 1
    /\ pc = "off"
    /\ phase = "main"
    /\ rows = << >>
    /\ idx = 0
    /\ resp = NoResp
    /\ apiData = EmptyObj
    /\ srcConn = [open |-> FALSE, ends |-> 0]
    /\ dstConn = [open |-> FALSE, ends |-> 0]
    /\ schema = FALSE
    /\ dest = EmptyDest
    /\ completed = FALSE
    /\ caught = "none"
    /\ attempted = {}
    /\ errored = {}
    /\ promise = "pending"
    /\ exitStatus = -1
    /\ log1 = << >>
    /\ lookups = 0
    /\ sameLookups = TRUE
    /\ dest1 = EmptyDest
    /\ faults = FALSE
    /\ inserted = {}
    /\ lastWrite = NoWrite
    /\ direct = FALSE
    /\ starter = "none"
    /\ issued = {}
    /\ requests = 0

mainVars == <<mig, src, run, pc, phase, rows, idx, resp, apiData,
              srcConn, dstConn, schema, dest, completed, caught, attempted,
              errored, promise, exitStatus, log1, lookups, sameLookups,
              dest1, faults, inserted, lastWrite, modeVars, issued,
              requests>>

InitExtract ==
    /\ MainOff
    /\ UserIdle
    /\ value \in AttributeValues
    /\ extracted = Pending

\* const idValue = extractIdFromValue(id)
ExtractId ==
    /\ extracted = Pending
    /\ extracted' = extractIdFromValue(value)
    /\ UNCHANGED <<mainVars, userVars, value>>

NextExtract == ExtractId

SpecExtract == InitExtract /\ [][NextExtract]_vars

\* ------------------------------------------------------ processUser in detail
\* The loop of migrateUserProfileReports over the extracted users, with every
\* await of processUser a step and the four location lookups in flight
\* together.
InitUser ==
    /\ MainOff
    /\ ExtractIdle
    /\ users \in 0..MaxUsers
    /\ uidx = 1
    /\ upc = IF users = 0 THEN "completed" ELSE "customFields"
    /\ finished = {}
    /\ fieldValues = {}
    /\ customFields = {}
    /\ locationIds = NullIds
    /\ lookup = IdleLookups
    /\ result = NullNames
    /\ locationNames = NullNames
    /\ cohorts = << >>
    /\ tenant = Null
    /\ inFlight = {}
    /\ userData = << >>
    /\ written = << >>

\* const customFields = await getCustomFields(sourceClient, user.userId)
\* fieldValues: the rows the attribute store holds for this user.
GetCustomFields ==
    /\ upc = "customFields"
    /\ \E fv \in SUBSET FieldNames, outcome \in {"rows", "error"} :
        /\ fieldValues' = fv
        /\ customFields' = IF outcome = "error" THEN {} ELSE fv
    /\ upc' = "locationIds"
    /\ UNCHANGED <<mainVars, extractVars, users, uidx, finished, locationIds,
                   lookup, result, locationNames, cohorts, tenant, inFlight,
                   userData, written>>

\* const locationIds = await getUserLocationIds(sourceClient, user.userId)
GetUserLocationIds ==
    /\ upc = "locationIds"
    /\ \E outcome \in {"rows", "error"} :
        locationIds' = [l \in Levels |->
                          IF outcome = "rows" /\ l \in fieldValues
                          THEN LevelValue[l] ELSE JsNull]
    /\ upc' = "locations"
    /\ UNCHANGED <<mainVars, extractVars, users, uidx, finished, fieldValues,
                   customFields, lookup, result, locationNames, cohorts,
                   tenant, inFlight, userData, written>>

\* A level whose getLocationName returns null before any query.
NoQuery(id) == Falsy(id) \/ Falsy(extractIdFromValue(id))

\* getLocationNames up to its await: locationMappings.map(...) calls
\* getLocationName for the four levels one after the other; each call sends
\* its query, or returns null at once, before the next call is made.
StartLocationLookups ==
    /\ upc = "locations"
    /\ result' = NullNames
    /\ lookup' = [l \in Levels |->
                    IF NoQuery(locationIds[l])
                    THEN [st |-> "returned", name |-> Null]
                    ELSE [st |-> "pending", name |-> Null]]
    /\ inFlight' = inFlight \cup
                     {[rec |-> uidx, level |-> l] :
                         l \in {k \in Levels : ~NoQuery(locationIds[k])}}
    /\ upc' = "join"
    /\ UNCHANGED <<mainVars, extractVars, users, uidx, finished, fieldValues,
                   customFields, locationIds, locationNames, cohorts, tenant,
                   userData, written>>

\* One mapper resumes: its getLocationName call has settled (the query was
\* answered, or failed and was caught) and it stores the name under its key.
SettleLookup ==
    /\ \E l \in Levels :
        /\ lookup[l].st \in {"returned", "pending"}
        /\ \E outcome \in IF lookup[l].st = "pending" THEN DbOutcomes
                           ELSE {"none"} :
            LET name == IF lookup[l].st = "returned" THEN Null
                        ELSE getLocationName(l,
                                 extractIdFromValue(locationIds[l]), outcome)
            IN /\ lookup' = [lookup EXCEPT ![l] = [st |-> "done", name |-> name]]
               /\ result' = [result EXCEPT ![ResultKey(l)] = name]
        /\ inFlight' = inFlight \ {[rec |-> uidx, level |-> l]}
    /\ UNCHANGED <<mainVars, extractVars, users, uidx, upc, finished,
                   fieldValues, customFields, locationIds, locationNames,
                   cohorts, tenant, userData, written>>

\* await Promise.all(locationPromises); return result
JoinLocations ==
    /\ upc = "join"
    /\ PromiseAll(lookup)
    /\ locationNames' = result
    /\ upc' = "cohorts"
    /\ UNCHANGED <<mainVars, extractVars, users, uidx, finished, fieldValues,
                   customFields, locationIds, lookup, result, cohorts, tenant,
                   inFlight, userData, written>>

\* const cohorts = await getUserCohorts(sourceClient, user.userId)
\* The frame of getLocationNames is gone.
GetUserCohorts ==
    /\ upc = "cohorts"
    /\ \E found \in CohortLists, outcome \in {"rows", "error"} :
        cohorts' = IF outcome = "error" THEN << >> ELSE found
    /\ lookup' = IdleLookups
    /\ result' = NullNames
    /\ upc' = "tenant"
    /\ UNCHANGED <<mainVars, extractVars, users, uidx, finished, fieldValues,
                   customFields, locationIds, locationNames, tenant, inFlight,
                   userData, written>>

\* await getUserTenantAndRole(...), determineAutomaticMembership(cohorts) and
\* the object built for insertOrUpdateUserProfileReport.
GetUserTenantAndRole ==
    /\ upc = "tenant"
    /\ \E outcome \in DbOutcomes :
        LET tenantName == IF outcome = "rows" THEN "tn" ELSE Null IN
        /\ tenant' = tenantName
        /\ userData' =
              <<[userId |-> Ids[uidx],
                 tenantName |-> tenantName,
                 customFields |-> customFields,
                 cohorts |-> cohorts,
                 automaticMember |->
                     IF determineAutomaticMembership(cohorts) THEN 1 ELSE 0,
                 state |-> locationNames.stateName,
                 district |-> locationNames.districtName,
                 block |-> locationNames.blockName,
                 village |-> locationNames.villageName]>>
    /\ upc' = "insert"
    /\ UNCHANGED <<mainVars, extractVars, users, uidx, finished, fieldValues,
                   customFields, locationIds, lookup, result, locationNames,
                   cohorts, inFlight, written>>

\* await insertOrUpdateUserProfileReport(destClient, {...}); a rejection
\* leaves processUser and the loop.
InsertUser ==
    /\ upc = "insert"
    /\ \E ok \in BOOLEAN :
        IF ok
        THEN /\ written' = <<UserRow(userData[1])>>
             /\ upc' = "returned"
        ELSE /\ upc' = "aborted"
             /\ UNCHANGED written
    /\ finished' = finished \cup {uidx}
    /\ UNCHANGED <<mainVars, extractVars, users, uidx, fieldValues,
                   customFields, locationIds, lookup, result, locationNames,
                   cohorts, tenant, inFlight, userData>>

\* processUser has returned: the loop takes the next user (or ends).
NextUser ==
    /\ upc = "returned"
    /\ uidx' = uidx + 1
    /\ upc' = IF uidx + 1 <= users THEN "customFields" ELSE "completed"
    /\ fieldValues' = {}
    /\ customFields' = {}
    /\ locationIds' = NullIds
    /\ locationNames' = NullNames
    /\ cohorts' = << >>
    /\ tenant' = Null
    /\ userData' = << >>
    /\ written' = << >>
    /\ UNCHANGED <<mainVars, extractVars, users, finished, lookup, result,
                   inFlight>>

NextProcessUser ==
    \/ GetCustomFields
    \/ GetUserLocationIds
    \/ StartLocationLookups
    \/ SettleLookup
    \/ JoinLocations
    \/ GetUserCohorts
    \/ GetUserTenantAndRole
    \/ InsertUser
    \/ NextUser

SpecUser == InitUser /\ [][NextProcessUser]_vars

\* ================================================================= claims
\* The run has left the try block (catch, finally, or returned).
AfterTry == pc \in {"catch", "closeSrc", "closeDst", "settled", "exited"}
\* The promise migrate* returned is settled.
Settled == pc \in {"settled", "exited"}

\* C1: an error raised while processing record i is caught within that
\* record's processing, and every later record i+1..n of the extracted row
\* set is still processed; no single-record failure aborts the batch.
C1_RecordFailureDoesNotAbortBatch ==
    AfterTry =>
        \A i \in errored : \A j \in (i + 1)..Len(rows) : j \in attempted

\* C3: whatever the outcome of the run, end() is invoked exactly once on the
\* source client and exactly once on the destination client.
C3_BothConnectionsEndedOnce ==
    Settled => srcConn.ends = 1 /\ dstConn.ends = 1

\* The stable key of the source row a table's record is written for.
SourceKey(t, row) == IF t = "course" THEN row.courseId ELSE row.id

\* C4: every row written to a destination table carries a primary key equal
\* to the stable key of the source row being processed (for the course table
\* its courseId), and never null or undefined.
C4_WrittenKeyIsSourceKey ==
    lastWrite # NoWrite =>
        LET w == lastWrite[1] IN
        SourceKey(w.table, w.row) # Null =>
            w.rec.key = SourceKey(w.table, w.row)

\* The rows of table t stored under the key of record rec.
Stored(t, rec) == {dest[t][i] : i \in RowsWithKey(dest[t], rec.key)}

\* The last write was an upsert that met a row with its key.
UpsertOnConflict ==
    /\ lastWrite # NoWrite
    /\ lastWrite[1].table = "report"
    /\ lastWrite[1].before # << >>

\* C5 as stated: an upsert of a record whose key exists overwrites every
\* non-key column, the creation columns included: the stored row equals the
\* record just written.
C5_UpsertOverwritesEveryColumn ==
    UpsertOnConflict => Stored("report", lastWrite[1].rec) = {lastWrite[1].rec}

\* C5 amended: an upsert of a record whose key exists overwrites every
\* non-key column except the creation columns (createdAt, createdBy,
\* createdOn), which keep the values of the existing row.
C5_UpsertKeepsCreationColumns ==
    UpsertOnConflict =>
        LET w == lastWrite[1] IN
        Stored("report", w.rec) = {[w.rec EXCEPT !.created = w.before[1].created]}

\* C5 witness: an upsert met a row that differed from the record in a mutable
\* column and in its creation column.
C5_Witness ==
    /\ UpsertOnConflict
    /\ lastWrite[1].before[1].val # lastWrite[1].rec.val
    /\ lastWrite[1].before[1].created # lastWrite[1].rec.created

\* C6: with the delete-then-insert writers, writing a record with key K after
\* an earlier write of K with a different payload leaves exactly one row for
\* K, holding the payload just written, for every key the writer is given.
C6_DeleteThenInsertLeavesOneRow ==
    (/\ lastWrite # NoWrite
     /\ lastWrite[1].table \in {"cert", "course"}
     /\ lastWrite[1].earlier \ {lastWrite[1].rec} # {}) =>
        LET w == lastWrite[1] IN
        /\ Cardinality(RowsWithKey(dest[w.table], w.rec.key)) = 1
        /\ Stored(w.table, w.rec) = {w.rec}

\* Lookup outcomes that are failures: a query error, a remote call error.
FailedLookups == {"error", "neterr", "non2xx"}

\* Every enrichment-dependent field of a record holds null or an empty value.
Defaulted(rec) ==
    \A f \in DOMAIN rec \ {"key", "val", "created", "courseId"} :
        rec[f] \in {Null, EmptyList, EmptyJson}

\* C7: a record whose enrichment lookup fails is still handed to the writer
\* with its enrichment-dependent fields null or empty, the written row is
\* stored so, and the lookup failure does not take the run out of the loop.
C7_FailedLookupStillWritten ==
    /\ resp \in FailedLookups =>
          /\ idx \in DOMAIN rows
          /\ Defaulted(Record(mig, phase, rows[idx], resp, apiData))
          /\ pc \in {"delete", "write"} \/ idx \in errored
    /\ (lastWrite # NoWrite /\ lastWrite[1].resp \in FailedLookups) =>
          /\ Defaulted(lastWrite[1].rec)
          /\ \E r \in Stored(lastWrite[1].table, lastWrite[1].rec) :
                \A f \in DOMAIN r \ {"created"} : r[f] = lastWrite[1].rec[f]

\* C7 witness: the row of a record whose lookup failed was written and the
\* loop is at the next record.
C7_Witness ==
    /\ lastWrite # NoWrite
    /\ lastWrite[1].resp \in FailedLookups
    /\ idx = lastWrite[1].idx + 1
    /\ idx \in DOMAIN rows
    /\ pc \in {"enrich", "fetch"}

\* C8: fetchCourseData and fetchApiData return {} in every non-success case
\* (network error, non-2xx, no result, no content / QuestionSet, empty
\* QuestionSet list).
C8_ResolverReturnsEmptyObject ==
    (resp \in Responses \ {"ok", "okNoId"}) => apiData = EmptyObj

\* C9: a fatal error (a connection that does not open, a failed extraction
\* query) makes the promise of migrate* reject, and a direct run exit with a
\* non-zero status.
C9_FatalErrorRejects ==
    /\ (Settled /\ caught \in {"connect", "extract"}) => promise = "rejected"
    /\ (pc = "exited" /\ caught \in {"connect", "extract"}) => exitStatus # 0

\* C10: a run leaves its try block without reaching "completed successfully"
\* only if opening a connection or the extraction query failed: with both
\* connections open and the rows extracted it reaches Completed whatever
\* happens in schema creation or in a record.
C10_FailedOnlyOnFatalError ==
    pc = "closeSrc" => (completed \/ caught \in {"connect", "extract"})

\* C2: after a second run against the unchanged source in which every lookup
\* gave the same outcome as in the first run, the destination tables hold the
\* same rows as after the first run (no call to a database having failed).
C2_RerunLeavesDestinationEqual ==
    (/\ run = 2
     /\ pc = "exited"
     /\ ~faults
     /\ sameLookups
     /\ lookups = Len(log1)) =>
        \A t \in {"report", "cert", "course"} :
            SeqToBag(dest[t]) = SeqToBag(dest1[t])

\* An identifier: a positive integer.
IsId(v) == v.t = "number" /\ v.frac = 0 /\ v.int > 0

\* C11: extractIdFromValue maps each supported encoding of a positive integer
\* n (n, [n], ["n"], "{n}", "n") to n, 42 included, and "abc" to null.
C11_SupportedShapesGiveId ==
    extracted # Pending =>
        /\ \A n \in (1..MaxId) \cup {42} :
              value \in Forms(n) => extracted = Num(n, 0)
        /\ value = Str(<<"a", "b", "c">>) => extracted = JsNull

\* C11 witness: the braced string "{42}" was decoded to 42.
C11_Witness ==
    /\ value = Str(<<"{", "4", "2", "}">>)
    /\ extracted = Num(42, 0)

\* C12: whatever the value, extractIdFromValue returns a positive integer or
\* null: never NaN, zero, a negative number or a non-integer.
C12_ExtractReturnsIdOrNull ==
    extracted # Pending => (extracted = JsNull \/ IsId(extracted))

\* C13: no field of the object handed to the writer is undefined: an absent
\* scalar is null and an absent list is [] (course id, name and language
\* when the enrichment result is empty).
C13_NoUndefinedField ==
    /\ (mig = "course" /\ phase = "course" /\ pc \in {"delete", "write"}) =>
          LET transformedData == mapContentToCourseEntity(apiData) IN
          \A f \in {"courseDoId", "courseName", "language"} :
              transformedData[f] # Undefined
    /\ (mig # "course" /\ pc = "write") =>
          LET rec == Record(mig, phase, rows[idx], resp, apiData) IN
          \A f \in DOMAIN rec : rec[f] # Undefined

\* Statements that change the database they are sent to.
WriteKinds == {"insert", "delete", "ddl"}

\* C14: no run sends a write (INSERT, UPDATE, DELETE, DDL) on the source
\* connection, every write goes to the destination connection, and no step
\* of a run, successful or failed, changes the source table.
C14_SourceIsReadOnly ==
    /\ [](\A st \in issued : st.kind \in WriteKinds <=> st.client = "dest")
    /\ [][src' = src]_vars

\* C14 witness: a run that failed at a record has ended, after reading the
\* source and writing the destination.
C14_Witness ==
    /\ pc = "settled"
    /\ caught = "record"
    /\ Statement("source", "select") \in issued
    /\ Statement("dest", "insert") \in issued
    /\ Statement("dest", "delete") \in issued

\* The rows of table t stored under another key than k.
OtherRows(t, k) == SelectSeq(t, LAMBDA r : r.key # k)

\* C15: a step that changes a destination table is a write of the current
\* record to the table of the current phase; it leaves every row with
\* another key as it was, and a row it adds holds every column of the record.
C15_WriteTouchesOnlyItsKey ==
    [][\A t \in {"report", "cert", "course"} :
          dest'[t] # dest[t] =>
              LET rec == Record(mig, phase, rows[idx], resp, apiData) IN
              /\ t = Table(mig, phase)
              /\ OtherRows(dest'[t], rec.key) = OtherRows(dest[t], rec.key)
              /\ \A r \in Range(dest'[t]) \ Range(dest[t]) :
                    /\ DOMAIN r = DOMAIN rec
                    /\ \A f \in DOMAIN rec \ {"created"} : r[f] = rec[f]]_vars

\* C15 witness: a delete-then-insert write has completed in a table that
\* also holds a row with another key.
C15_Witness ==
    /\ lastWrite # NoWrite
    /\ lastWrite[1].table \in {"cert", "course"}
    /\ lastWrite[1].before # << >>
    /\ OtherRows(dest[lastWrite[1].table], lastWrite[1].rec.key) # << >>

\* C17: a direct run whose migrate* promise rejects exits with status 1; an
\* imported module starts no migration by itself and never exits the process.
C17_ExitOnlyWhenRunDirectly ==
    /\ (direct /\ pc = "exited" /\ promise = "rejected") => exitStatus = 1
    /\ ~direct => (starter # "module" /\ exitStatus = -1 /\ pc # "exited")
    /\ (~direct /\ starter = "none") => pc = "loaded"

\* C17 witness: a direct run ended with a rejected promise and status 1.
C17_Witness ==
    /\ direct
    /\ pc = "exited"
    /\ promise = "rejected"
    /\ exitStatus = 1

\* C18: the extraction query and every destination write happen with both
\* connections open and after CREATE TABLE IF NOT EXISTS ran in this run, in
\* all five migrations.
C18_ExtractAndWriteAfterSchema ==
    pc \in {"extract", "enrich", "fetch", "delete", "write"} =>
        (srcConn.open /\ dstConn.open /\ schema)

\* C16: for a user with no attribute-store rows and an empty cohort list the
\* stored row has automaticMember false, state, district, block and village
\* null, and customFields {}.
C16_BareUserRow ==
    (upc = "returned" /\ fieldValues = {} /\ cohorts = << >>) =>
        /\ written # << >>
        /\ written[1].automaticMember = FALSE
        /\ \A f \in {"state", "district", "block", "village"} :
              written[1][f] = Null
        /\ written[1].customFields = Jsonb({})

\* C16 witness: such a user's row was stored, its queries having succeeded
\* and found its tenant.
C16_Witness ==
    /\ upc = "returned"
    /\ fieldValues = {}
    /\ cohorts = << >>
    /\ written # << >>
    /\ written[1].tenantName = "tn"

\* C19: every query in flight belongs to the user being processed, whose
\* getLocationNames call is waiting for it; the users before it have all
\* finished, and a user's processing starts with nothing in flight.
C19_OneRecordAtATime ==
    /\ \A o \in inFlight : o.rec = uidx /\ upc = "join"
    /\ upc \notin {"off", "aborted"} => \A i \in 1..(uidx - 1) : i \in finished
    /\ upc \in {"customFields", "completed", "aborted"} => inFlight = {}
    /\ upc \notin {"returned", "aborted"} => uidx \notin finished

\* C19 witness: the second user's four lookups are in flight and the first
\* user has finished.
C19_Witness ==
    /\ uidx = 2
    /\ 1 \in finished
    /\ inFlight = {[rec |-> 2, level |-> l] : l \in Levels}

\* C20: getLocationNames has started every lookup before it waits, returns
\* only when all four have finished, and each key of the object it returns
\* holds the result of its own lookup (the name of that level, or null).
C20_LocationNamesJoinOwnResults ==
    /\ upc = "join" => \A l \in Levels : lookup[l].st # "idle"
    /\ upc = "cohorts" =>
          /\ \A l \in Levels : lookup[l].st = "done"
          /\ locationNames.stateName = lookup["state"].name
          /\ locationNames.districtName = lookup["district"].name
          /\ locationNames.blockName = lookup["block"].name
          /\ locationNames.villageName = lookup["village"].name
          /\ \A l \in Levels :
                lookup[l].name \in {Null, LocationRow[l].name}

\* C20 witness: getLocationNames returned with two levels found, one whose
\* lookup gave null and one that had no id.
C20_Witness ==
    /\ upc = "cohorts"
    /\ fieldValues \cap Levels = {"state", "district", "village"}
    /\ locationNames = [stateName |-> "s1", districtName |-> Null,
                        blockName |-> Null, villageName |-> "v4"]

\* The record in hand has been through its lookup call: fetchCourseData /
\* fetchApiData has returned and the record's write has not finished yet.
LookedUp ==
    /\ mig \in ApiMigrations
    /\ phase # "cert"
    /\ pc \in {"delete", "write"}
    /\ idx \in DOMAIN rows

\* C21 (as stated): in the course and assessment migrations every processed
\* record causes exactly one remote request, whatever its courseId is (a null
\* or empty one included) and whatever the response is.
C21_ExactlyOneRequestPerRecord == LookedUp => requests = 1

\* C21 (amended): a processed record causes exactly one remote request when its
\* courseId is non-empty, whatever the response is (no second request after a
\* failure), and no request at all when its courseId is null or empty.
C21_OneRequestUnlessKeyEmpty ==
    LookedUp => /\ requests = (IF Truthy(rows[idx].courseId) THEN 1 ELSE 0)
                /\ (resp = "norequest") = (requests = 0)

\* A record whose request failed has been looked up, and one with a NULL
\* courseId has been in an earlier step of the same run.
C21_Witness ==
    /\ LookedUp
    /\ resp \in {"neterr", "non2xx"}
    /\ requests = 1
    /\ \E w \in inserted : w.table = Table(mig, phase)

\* The INSERT of the record in hand fails in a delete-then-insert writer: its
\* DELETE has succeeded (pc = "write") and the error leaves the loop.
InsertFailsAfterDelete ==
    /\ mig = "course"
    /\ pc = "write"
    /\ pc' = "catch"

\* C22: in the delete-then-insert writers, when the insert for a key K that
\* had a destination row before the record's write fails with an error after
\* its delete succeeded, the destination still holds a row for K (no later
\* step of the run writes the destination).
C22_FailedInsertKeepsRow ==
    [][InsertFailsAfterDelete =>
        LET t == Table(mig, phase)
            K == Record(mig, phase, rows[idx], resp, apiData).key
        IN (\E x \in inserted : x.table = t /\ x.rec.key = K)
               => RowsWithKey(dest'[t], K) # {}]_vars

\* The columns of a report row that come from the enrichment lookups.
EnrichmentColumns(m) ==
    IF m = "user" THEN {"customFields", "cohorts", "tenantName", "state"}
    ELSE {"customFields", "state"}

\* What this run's lookup, with the given outcome, yields for a column.
LookedUpValue(f, outcome) ==
    IF f = "customFields" THEN getCustomFields(outcome)
    ELSE IF f = "cohorts" THEN getUserCohorts(outcome)
    ELSE IF f = "tenantName" THEN getUserTenantAndRole(outcome)
    ELSE getLocationNames(outcome)

\* C23: in the user-profile and cohort migrations the enrichment-derived
\* columns of the row a run has written for key K hold what that run's lookups
\* gave: when the lookup fails or finds nothing, the value stored by an earlier
\* run is overwritten with the default ({}, [] or null), not kept.
C23_EnrichmentReflectsThisRun ==
    (mig \in DbLookupMigrations /\ lastWrite # NoWrite) =>
        LET w == lastWrite[1] IN
        /\ Stored("report", w.rec) # {}
        /\ \A r \in Stored("report", w.rec) :
             \A f \in EnrichmentColumns(mig) :
                /\ r[f] = LookedUpValue(f, w.resp)
                /\ w.resp \in {"error", "empty"} =>
                       r[f] \in {Null, EmptyList, EmptyJson}

\* C23 witness: a row whose enrichment columns were filled by an earlier run
\* has been written again by a run whose lookups failed or found nothing.
C23_Witness ==
    /\ mig \in DbLookupMigrations
    /\ UpsertOnConflict
    /\ lastWrite[1].resp \in {"error", "empty"}
    /\ \A f \in EnrichmentColumns(mig) :
          /\ lastWrite[1].before[1][f] \notin {Null, EmptyList, EmptyJson}
          /\ \A r \in Stored("report", lastWrite[1].rec) :
                r[f] \in {Null, EmptyList, EmptyJson}

\* C24: in the course migration the certificate copy comes first and the
\* course step second: while the copy step runs there is no course lookup and
\* no write to the course table, once the course step runs the certificate
\* table is not written again and the copy step is not entered again, and an
\* error in the copy step keeps the run from ever entering the course step.
C24_CertificateCopyBeforeCourses ==
    [][mig = "course" =>
        /\ phase = "cert" =>
              /\ lookups' = lookups
              /\ requests' = requests
              /\ dest'["course"] = dest["course"]
              /\ faults' => phase' = "cert"
        /\ phase = "course" =>
              /\ dest'["cert"] = dest["cert"]
              /\ phase' = "course"
        /\ (lookups' > lookups \/ dest'["course"] # dest["course"]) =>
              /\ phase = "course"
              /\ ~faults]_vars

\* C24 witness: the copy step has inserted a source row into the certificate
\* table, and the course step has then looked a course up and written it.
C24_Witness ==
    /\ mig = "course"
    /\ phase = "course"
    /\ lookups > 0
    /\ lastWrite # NoWrite
    /\ lastWrite[1].table = "course"
    /\ \E i \in DOMAIN dest["cert"] : dest["cert"][i].val = "v1"

====
